---- MODULE Spec2Model ----
(***************************************************************************)
(* Workspace lifecycle of terrajet's Terraform client (package client):    *)
(* one Workspace, its LastOperation record, the goroutines started by      *)
(* ApplyAsync and Destroy, and the synchronous Plan, Apply and Refresh     *)
(* calls that run the terraform binary in the workspace directory.         *)
(***************************************************************************)
EXTENDS Integers, Sequences, FiniteSets, Bags, TLC

\* ------------------------------------------------------------------ bounds
\* the clock stops at MaxTime
MaxTime == 3
\* goroutines of ApplyAsync/Destroy and Plan/Apply/Refresh calls blocked in
\* cmd.Run() in flight at once
MaxProcs == 2

\* ------------------------------------------------------- values and types
\* a nil *time.Time
NoTime == 0
\* a nil error
NoErr == "nil"

OpTypes == {"apply", "destroy"}

\* the zero value of Operation
ZeroOp == [Type |-> "", StartTime |-> NoTime, EndTime |-> NoTime, err |-> NoErr]

\* errors.Wrapf(err, "cannot apply: %s", ...) / "cannot destroy: %s"
WrapErr(kind) == "cannot " \o kind

\* lifecycle states of an Operation record
IsIdle(o) == o = ZeroOp
IsRunning(o) == o.StartTime # NoTime /\ o.EndTime = NoTime
IsFinished(o) == o.StartTime # NoTime /\ o.EndTime # NoTime

\* ------------------------------------------------- Operation's mutators
\* what MarkStart does to its receiver
MarkStartBody(o, t, n) ==
  [o EXCEPT !.Type = t, !.StartTime = n, !.EndTime = NoTime, !.err = NoErr]

\* what MarkEnd does to its receiver
MarkEndBody(o, n) == [o EXCEPT !.EndTime = n]

\* what Flush does to its receiver
FlushBody(o) ==
  [o EXCEPT !.Type = "", !.StartTime = NoTime, !.EndTime = NoTime, !.err = NoErr]

\* MarkStart on a pointer receiver that forgets o.EndTime = nil
MarkStartKeepsEnd(o, t, n) == [o EXCEPT !.Type = t, !.StartTime = n, !.err = NoErr]

\* func (o Operation) MarkStart(t string): the receiver is a copy of
\* *w.LastOperation, the record the Workspace points to keeps its fields
MarkStart(o, t, n) == LET copy == MarkStartBody(o, t, n) IN o

\* func (o Operation) MarkEnd(): value receiver
MarkEnd(o, n) == LET copy == MarkEndBody(o, n) IN o

\* func (o Operation) Flush(): value receiver
Flush(o) == LET copy == FlushBody(o) IN o

\* time.Now(): the clock read by a mutator, and the clock after the read
Tick(n) == IF n < MaxTime THEN n + 1 ELSE n

\* ------------------------------------------------------------------ state
VARIABLES
  nilOp,        \* w.LastOperation == nil
  op,           \* *w.LastOperation
  now,          \* time.Now()
  tasks,        \* goroutines started by ApplyAsync and Destroy (a bag)
  calls,        \* Plan/Apply/Refresh calls blocked in cmd.Run (a bag)
  ret,          \* the last call that returned, with what it returned
  done,         \* the last async operation that completed
  lastMutator,  \* the last write to *w.LastOperation
  crashed       \* a nil dereference has panicked the process

vars == <<nilOp, op, now, tasks, calls, ret, done, lastMutator, crashed>>

\* ------------------------------------------- resources, files, the registry
\* tr.GetUID(): the key of the one resource
UID == "uid-1"

\* the JSON encoding of a bool
Bool(b) == IF b THEN "true" ELSE "false"

\* m[k] = v on a Go map
Put(m, k, v) == [j \in DOMAIN m \cup {k} |-> IF j = k THEN v ELSE m[j]]

\* for k, v := range m { base[k] = v }
RECURSIVE CopyAll(_, _, _)
CopyAll(base, m, ks) ==
  IF ks = {} THEN base
  ELSE LET k == CHOOSE j \in ks : TRUE
       IN CopyAll(Put(base, k, m[k]), m, ks \ {k})

\* json.JSParser.Marshal of a map: its members, in no order
Marshal(m) == {<<k, m[k]>> : k \in DOMAIN m}

\* the map a marshalled object decodes to
Unmarshal(raw) ==
  [k \in {p[1] : p \in raw} |-> (CHOOSE p \in raw : p[1] = k)[2]]

EmptyMap == [k \in {} |-> ""]

AttrKeys == {"id", "a"}
ParamMaps == UNION {[D -> {"p", "q"}] : D \in SUBSET AttrKeys}
ObsMaps == UNION {[D -> {"o"}] : D \in SUBSET AttrKeys}
ExternalNames == {"", "ext"}

\* a resource.Terraformed: GetUID, GetParameters, GetObservation,
\* meta.GetExternalName, meta.WasDeleted
Resources ==
  [uid : {UID}, parameters : ParamMaps, observation : ObsMaps,
   externalName : ExternalNames, deleted : BOOLEAN]

ZeroResource ==
  [uid |-> UID, parameters |-> EmptyMap, observation |-> EmptyMap,
   externalName |-> "", deleted |-> FALSE]

\* the versions of the resource the reconciler hands to the store
StoreResources ==
  {r \in Resources : /\ r.parameters \in {[a |-> "p"], [a |-> "q"]}
                     /\ r.observation = EmptyMap
                     /\ r.externalName = "ext"}

NewFileProducer(r) ==
  [Resource |-> r, parameters |-> r.parameters, observation |-> r.observation]

NoProducer == NewFileProducer(ZeroResource)

\* TFState with the two range loops in the other order
TFStateParamsLast(f) ==
  LET base1 == CopyAll(EmptyMap, f.observation, DOMAIN f.observation)
      base2 == CopyAll(base1, f.parameters, DOMAIN f.parameters)
      base3 == Put(base2, "id", f.Resource.externalName)
  IN [Lineage |-> f.Resource.uid,
      Resources |-> << [Mode |-> "managed",
                        Instances |-> << [SchemaVersion |-> 0,
                                          AttributesRaw |-> Marshal(base3)] >>] >>]

TFState(f) ==
  LET base1 == CopyAll(EmptyMap, f.parameters, DOMAIN f.parameters)
      base2 == CopyAll(base1, f.observation, DOMAIN f.observation)
      base3 == Put(base2, "id", f.Resource.externalName)
  IN [Lineage |-> f.Resource.uid,
      Resources |-> << [Mode |-> "managed",
                        Instances |-> << [SchemaVersion |-> 0,
                                          AttributesRaw |-> Marshal(base3)] >>] >>]

\* MainTF writing prevent_destroy without the negation
MainTFParametersNoNegation(f) ==
  Put(f.parameters, "prevent_destroy", Bool(f.Resource.deleted))

\* fp.parameters after MainTF has run
MainTFParameters(f) ==
  Put(f.parameters, "prevent_destroy", Bool(~f.Resource.deleted))

\* the map MainTF returns; its resource block is fp.parameters itself
MainTF(f) == [resource |-> Marshal(MainTFParameters(f))]

\* a file of the workspace directory and the value encoded in it
NoFile == [exists |-> FALSE, data |-> {}]
FileOf(v) == [exists |-> TRUE, data |-> {v}]

NoDisk == [dir |-> FALSE, tfstate |-> NoFile, maintf |-> NoFile]

\* the state file as terraform leaves it after an apply
ProvisionerState ==
  [Lineage |-> UID,
   Resources |-> << [Mode |-> "managed",
                     Instances |-> << [SchemaVersion |-> 0,
                                       AttributesRaw |->
                                         Marshal([a |-> "applied", id |-> "ext"])] >>] >>]

\* a directory that outlived the process that made it
LeftoverDisk ==
  [dir |-> TRUE,
   tfstate |-> FileOf(ProvisionerState),
   maintf |-> FileOf([resource |-> Marshal([a |-> "p", prevent_destroy |-> "true"])])]

\* the reconciler threads that can be inside the store
Threads == {"t1", "t2"}

IdleThread == [pc |-> "idle", fp |-> NoProducer, notExist |-> FALSE, alone |-> FALSE]

\* a miss of ws.store.Load
NoWorkspace == [id |-> 0, Enqueue |-> ""]

\* enq is the callback the caller of Workspace() passed
NoSRet == [call |-> "", err |-> "", w |-> NoWorkspace, enq |-> ""]

NoObserve == [externalName |-> "", state |-> "", terraformed |-> FALSE, result |-> "none"]

NoOut == [fn |-> "", of |-> NoProducer, state |-> {}, config |-> {}]

VARIABLES
  observe,      \* the last external.Observe call and how it ended
  fp,           \* a FileProducer
  fpOut,        \* what the last method called on fp returned
  tr,           \* the resource as the reconciler reads it
  store,        \* ws.store: the entry of the key
  allocated,    \* Workspace objects put into ws.store so far
  disk,         \* the workspace directory of the key
  threads,      \* where each thread is inside Workspace() or Remove()
  handed,       \* Workspace references returned since the last Delete
  sret          \* the last Workspace() or Remove() call that returned

fvars == <<fp, fpOut>>
svars == <<tr, store, allocated, disk, threads, handed, sret>>
allvars == <<vars, observe, fvars, svars>>

\* the parts of the state a specification does not exercise
WsIdle ==
  /\ nilOp = TRUE
  /\ op = ZeroOp
  /\ now = 2
  /\ tasks = EmptyBag
  /\ calls = EmptyBag
  /\ ret = [call |-> "", result |-> "", pre |-> ZeroOp, post |-> ZeroOp,
            spawned |-> FALSE, IsApplying |-> FALSE, IsDestroying |-> FALSE]
  /\ done = [kind |-> "", failed |-> FALSE, refreshes |-> 0]
  /\ lastMutator = "none"
  /\ crashed = FALSE

ObserveIdle == observe = NoObserve

FPIdle == fp = NoProducer /\ fpOut = NoOut

StoreIdle ==
  /\ tr = ZeroResource
  /\ store = NoWorkspace
  /\ allocated = 0
  /\ disk = NoDisk
  /\ threads = [t \in Threads |-> IdleThread]
  /\ handed = {}
  /\ sret = NoSRet

\* the goroutine calling w.Enqueue() before it records the outcome
AsyncBodyEarlyEnqueue == <<"Run", "Enqueue", "Err", "MarkEnd", "cancel">>

\* the goroutine ending without the w.Enqueue() call
AsyncBodyNoEnqueue == <<"Run", "Err", "MarkEnd", "cancel">>

\* the statements of the goroutine of ApplyAsync and Destroy, in order
AsyncBody == <<"Run", "Err", "MarkEnd", "Enqueue", "cancel">>

\* no async operation completed yet
NoDone == [kind |-> "", failed |-> FALSE, refreshes |-> 0]

NoRet ==
  [call |-> "", result |-> "", pre |-> ZeroOp, post |-> ZeroOp,
   spawned |-> FALSE, IsApplying |-> FALSE, IsDestroying |-> FALSE]

\* a call returns: ret records it
Return(c, res, pre, post, sp) ==
  [call |-> c, result |-> res, pre |-> pre, post |-> post, spawned |-> sp,
   IsApplying |-> FALSE, IsDestroying |-> FALSE]

\* the Operation records a Workspace can be handed
InitOps ==
  {ZeroOp}
  \cup {[Type |-> t, StartTime |-> 1, EndTime |-> NoTime, err |-> NoErr] : t \in OpTypes}
  \cup UNION {{[Type |-> t, StartTime |-> 1, EndTime |-> 2, err |-> e] :
                  e \in {NoErr, WrapErr(t)}} : t \in OpTypes}

\* &Workspace{Enqueue: enq, dir: dir} leaves LastOperation nil; the field is
\* exported, so the owner of the Workspace may point it to an Operation
Init ==
  /\ nilOp \in BOOLEAN
  /\ op \in (IF nilOp THEN {ZeroOp} ELSE InitOps)
  /\ now = 2
  /\ tasks = EmptyBag
  /\ calls = EmptyBag
  /\ ret = NoRet
  /\ done = NoDone
  /\ lastMutator = "none"
  /\ crashed = FALSE
  /\ ObserveIdle /\ FPIdle /\ StoreIdle

One(r) == SetToBag({r})

\* processes of the Workspace that are alive
AliveTasks == {t \in BagToSet(tasks) : t.alive}
NumAlive ==
  BagCardinality([t \in AliveTasks |-> tasks[t]]) + BagCardinality(calls)

\* goroutines and blocked calls of the Workspace
InFlight == BagCardinality(tasks) + BagCardinality(calls)

\* a nil pointer dereference: the process dies
Panic(c) ==
  /\ crashed' = TRUE
  /\ ret' = Return(c, "panic", op, op, FALSE)
  /\ UNCHANGED <<nilOp, op, now, tasks, calls, done, lastMutator>>

\* go func() { ... }() of ApplyAsync and Destroy
NewTask(kind) == [kind |-> kind, pc |-> 1, alive |-> FALSE, failed |-> FALSE, enq |-> 0]

\* ------------------------------------------------------------ ApplyAsync
ApplyAsync ==
  /\ ~crashed
  /\ IF nilOp THEN Panic("ApplyAsync")
     ELSE IF op.EndTime = NoTime
     THEN IF op.StartTime = NoTime
          THEN Panic("ApplyAsync")
          ELSE /\ ret' = Return("ApplyAsync", "busy", op, op, FALSE)
               /\ UNCHANGED <<nilOp, op, now, tasks, calls, done, lastMutator, crashed>>
     ELSE LET o1 == MarkStart(op, "apply", now) IN
          IF o1.StartTime = NoTime
          THEN /\ crashed' = TRUE
               /\ op' = o1
               /\ now' = Tick(now)
               /\ lastMutator' = "MarkStart apply"
               /\ ret' = Return("ApplyAsync", "panic", op, o1, FALSE)
               /\ UNCHANGED <<nilOp, tasks, calls, done>>
          ELSE /\ InFlight < MaxProcs
               /\ op' = o1
               /\ now' = Tick(now)
               /\ lastMutator' = "MarkStart apply"
               /\ tasks' = tasks (+) One(NewTask("apply"))
               /\ ret' = Return("ApplyAsync", "ok", op, o1, TRUE)
               /\ done' = NoDone
               /\ UNCHANGED <<nilOp, calls, crashed>>

\* ----------------------------------------------------------------- Destroy
Destroy ==
  /\ ~crashed
  /\ IF nilOp THEN Panic("Destroy")
     ELSE IF op.Type = "destroy"
     THEN /\ ret' = Return("Destroy", "ok", op, op, FALSE)
          /\ UNCHANGED <<nilOp, op, now, tasks, calls, done, lastMutator, crashed>>
     ELSE IF op.Type # "destroy" /\ op.EndTime = NoTime
     THEN IF op.StartTime = NoTime
          THEN Panic("Destroy")
          ELSE /\ ret' = Return("Destroy", "busy", op, op, FALSE)
               /\ UNCHANGED <<nilOp, op, now, tasks, calls, done, lastMutator, crashed>>
     ELSE LET o1 == MarkStart(op, "destroy", now) IN
          IF o1.StartTime = NoTime
          THEN /\ crashed' = TRUE
               /\ op' = o1
               /\ now' = Tick(now)
               /\ lastMutator' = "MarkStart destroy"
               /\ ret' = Return("Destroy", "panic", op, o1, FALSE)
               /\ UNCHANGED <<nilOp, tasks, calls, done>>
          ELSE /\ InFlight < MaxProcs
               /\ op' = o1
               /\ now' = Tick(now)
               /\ lastMutator' = "MarkStart destroy"
               /\ tasks' = tasks (+) One(NewTask("destroy"))
               /\ ret' = Return("Destroy", "ok", op, o1, TRUE)
               /\ done' = NoDone
               /\ UNCHANGED <<nilOp, calls, crashed>>

\* ------------------------------------- the goroutine of ApplyAsync/Destroy
Stmt(t) == AsyncBody[t.pc]

Replace(t, u) == (tasks (-) One(t)) (+) One(u)

\* cmd.Run() starts the terraform process
TaskRunStart(t) ==
  /\ Stmt(t) = "Run" /\ ~t.alive
  /\ tasks' = Replace(t, [t EXCEPT !.alive = TRUE])
  /\ UNCHANGED <<nilOp, op, now, calls, ret, done, lastMutator, crashed>>

\* cmd.Run() returns: the process exited by itself or was killed at the
\* deadline of the context
TaskRunExit(t) ==
  /\ Stmt(t) = "Run" /\ t.alive
  /\ \E f \in BOOLEAN :
       tasks' = Replace(t, [t EXCEPT !.alive = FALSE, !.failed = f, !.pc = @ + 1])
  /\ UNCHANGED <<nilOp, op, now, calls, ret, done, lastMutator, crashed>>

\* if err != nil { w.LastOperation.Err = errors.Wrapf(err, ...) }
TaskErr(t) ==
  /\ Stmt(t) = "Err"
  /\ tasks' = Replace(t, [t EXCEPT !.pc = @ + 1])
  /\ IF t.failed
     THEN /\ op' = [op EXCEPT !.err = WrapErr(t.kind)]
          /\ lastMutator' = "Err"
     ELSE UNCHANGED <<op, lastMutator>>
  /\ UNCHANGED <<nilOp, now, calls, ret, done, crashed>>

\* w.LastOperation.MarkEnd()
TaskMarkEnd(t) ==
  /\ Stmt(t) = "MarkEnd"
  /\ tasks' = Replace(t, [t EXCEPT !.pc = @ + 1])
  /\ op' = MarkEnd(op, now)
  /\ now' = Tick(now)
  /\ lastMutator' = "MarkEnd"
  /\ done' = [kind |-> t.kind, failed |-> t.failed, refreshes |-> 0]
  /\ UNCHANGED <<nilOp, calls, ret, crashed>>

\* w.Enqueue()
TaskEnqueue(t) ==
  /\ Stmt(t) = "Enqueue"
  /\ tasks' = Replace(t, [t EXCEPT !.pc = @ + 1, !.enq = @ + 1])
  /\ UNCHANGED <<nilOp, op, now, calls, ret, done, lastMutator, crashed>>

\* cancel(): the goroutine ends
TaskCancel(t) ==
  /\ Stmt(t) = "cancel"
  /\ tasks' = tasks (-) One(t)
  /\ UNCHANGED <<nilOp, op, now, calls, ret, done, lastMutator, crashed>>

TaskStep ==
  /\ ~crashed
  /\ \E t \in BagToSet(tasks) :
       \/ TaskRunStart(t)
       \/ TaskRunExit(t)
       \/ TaskErr(t)
       \/ TaskMarkEnd(t)
       \/ TaskEnqueue(t)
       \/ TaskCancel(t)

\* ----------------------------------------------------------------- Refresh
\* Refresh without the EndTime == nil test for an ongoing operation
RefreshBranchNoRunning(o) ==
  IF o.StartTime # NoTime
  THEN IF o.err # NoErr THEN "failed"
       ELSE IF o.Type = "destroy" THEN "gone"
       ELSE "flushed"
  ELSE "plain"

\* the branch Refresh takes on the Operation it reads
RefreshBranch(o) ==
  IF o.StartTime # NoTime
  THEN IF o.EndTime = NoTime THEN "running"
       ELSE IF o.err # NoErr THEN "failed"
       ELSE IF o.Type = "destroy" THEN "gone"
       ELSE "flushed"
  ELSE "plain"

\* an async operation has completed: this Refresh is the next one after it
CountRefresh(d) ==
  IF d.kind = "" THEN d
  ELSE [d EXCEPT !.refreshes = IF @ < 2 THEN @ + 1 ELSE @]

\* a Plan, Apply or Refresh call that starts terraform and waits for it
NewCall(c, deferFlush) ==
  [call |-> c, deferFlush |-> deferFlush, pre |-> op]

\* Refresh up to its first return or to cmd.Run()
Refresh ==
  /\ ~crashed
  /\ IF nilOp THEN Panic("Refresh")
     ELSE LET b == RefreshBranch(op)
              d == CountRefresh(done) IN
       /\ done' = d
       /\ CASE b = "running" ->
                 /\ ret' = [Return("Refresh", "flags", op, op, FALSE) EXCEPT
                              !.IsApplying = (op.Type = "apply"),
                              !.IsDestroying = (op.Type = "destroy")]
                 /\ UNCHANGED <<nilOp, op, now, tasks, calls, lastMutator, crashed>>
            [] b = "failed" ->
                 /\ op' = Flush(op)
                 /\ lastMutator' = "Flush"
                 /\ ret' = [Return("Refresh", "lastOperationError", op, op', FALSE) EXCEPT
                              !.IsApplying = (op.Type = "apply"),
                              !.IsDestroying = (op.Type = "destroy")]
                 /\ UNCHANGED <<nilOp, now, tasks, calls, crashed>>
            [] b = "gone" ->
                 /\ op' = Flush(op)
                 /\ lastMutator' = "Flush"
                 /\ ret' = Return("Refresh", "notFound", op, op', FALSE)
                 /\ UNCHANGED <<nilOp, now, tasks, calls, crashed>>
            [] b \in {"flushed", "plain"} ->
                 /\ InFlight < MaxProcs
                 /\ calls' = calls (+) One(NewCall("Refresh", b = "flushed"))
                 /\ UNCHANGED <<nilOp, op, now, tasks, ret, lastMutator, crashed>>

\* cmd.Run() of Refresh returns; the state file is read; the deferred Flush
RefreshEnd(c) ==
  /\ ~crashed
  /\ c.call = "Refresh"
  /\ calls' = calls (-) One(c)
  /\ IF c.deferFlush
     THEN /\ op' = Flush(op)
          /\ lastMutator' = "Flush"
     ELSE UNCHANGED <<op, lastMutator>>
  /\ \E res \in {"execError", "stateReadError", "parseError", "state"} :
       ret' = Return("Refresh", res, c.pre, op', TRUE)
  /\ UNCHANGED <<nilOp, now, tasks, done, crashed>>

\* -------------------------------------------------------------------- Plan
Plan ==
  /\ ~crashed
  /\ IF nilOp THEN Panic("Plan")
     ELSE IF op.StartTime # NoTime /\ op.EndTime = NoTime
     THEN /\ ret' = Return("Plan", "busy", op, op, FALSE)
          /\ UNCHANGED <<nilOp, op, now, tasks, calls, done, lastMutator, crashed>>
     ELSE /\ InFlight < MaxProcs
          /\ calls' = calls (+) One(NewCall("Plan", FALSE))
          /\ UNCHANGED <<nilOp, op, now, tasks, ret, done, lastMutator, crashed>>

\* cmd.Run() of Plan returns; the change summary is looked up and parsed
PlanEnd(c) ==
  /\ ~crashed
  /\ c.call = "Plan"
  /\ calls' = calls (-) One(c)
  /\ \E res \in {"execError", "parseError", "plan"} :
       ret' = Return("Plan", res, c.pre, op, TRUE)
  /\ UNCHANGED <<nilOp, op, now, tasks, done, lastMutator, crashed>>

\* ------------------------------------------------------------------- Apply
Apply ==
  /\ ~crashed
  /\ IF nilOp THEN Panic("Apply")
     ELSE IF op.EndTime = NoTime
     THEN IF op.StartTime = NoTime
          THEN Panic("Apply")
          ELSE /\ ret' = Return("Apply", "busy", op, op, FALSE)
               /\ UNCHANGED <<nilOp, op, now, tasks, calls, done, lastMutator, crashed>>
     ELSE /\ InFlight < MaxProcs
          /\ calls' = calls (+) One(NewCall("Apply", FALSE))
          /\ UNCHANGED <<nilOp, op, now, tasks, ret, done, lastMutator, crashed>>

\* cmd.Run() of Apply returns; the state file is read
ApplyEnd(c) ==
  /\ ~crashed
  /\ c.call = "Apply"
  /\ calls' = calls (-) One(c)
  /\ \E res \in {"execError", "stateReadError", "parseError", "state"} :
       ret' = Return("Apply", res, c.pre, op, TRUE)
  /\ UNCHANGED <<nilOp, op, now, tasks, done, lastMutator, crashed>>

\* a step of the Workspace leaves the rest of the state alone
Rest == UNCHANGED <<observe, fvars, svars>>

Next ==
  \/ ApplyAsync /\ Rest
  \/ Destroy /\ Rest
  \/ TaskStep /\ Rest
  \/ Refresh /\ Rest
  \/ (\E c \in BagToSet(calls) : RefreshEnd(c)) /\ Rest
  \/ Plan /\ Rest
  \/ (\E c \in BagToSet(calls) : PlanEnd(c)) /\ Rest
  \/ Apply /\ Rest
  \/ (\E c \in BagToSet(calls) : ApplyEnd(c)) /\ Rest

Spec == Init /\ [][Next]_allvars

\* ----------------------------------------------------------- scheduling
\* every goroutine a Workspace can have in flight
TaskRecords ==
  [kind : OpTypes, pc : 1..Len(AsyncBody), alive : BOOLEAN, failed : BOOLEAN,
   enq : 0..1]

\* the next statement of one goroutine
TaskStepOf(t) ==
  /\ ~crashed
  /\ t \in BagToSet(tasks)
  /\ \/ TaskRunStart(t)
     \/ TaskRunExit(t)
     \/ TaskErr(t)
     \/ TaskMarkEnd(t)
     \/ TaskEnqueue(t)
     \/ TaskCancel(t)
  /\ Rest

\* the Go scheduler runs every goroutine, and cmd.Run() returns: terraform
\* exits by itself or is killed when the deadline of the context expires
Fairness == \A t \in TaskRecords : WF_allvars(TaskStepOf(t))

\* the calls that start async operations, their goroutines, and the Refresh
\* calls that observe them
AsyncNext ==
  \/ ApplyAsync /\ Rest
  \/ Destroy /\ Rest
  \/ TaskStep /\ Rest
  \/ Refresh /\ Rest
  \/ (\E c \in BagToSet(calls) : RefreshEnd(c)) /\ Rest

FairSpec == Init /\ [][AsyncNext]_allvars /\ Fairness

\* ------------------------------------------------------ external.Observe
StateAnnotations == {"", "st"}

\* the short circuit taken on the length of one of the two strings only
ObserveSkipsOnEither(externalName, state) == externalName = "" \/ state = ""

\* xpmeta.GetExternalName(tr) == "" && meta.GetState(tr) == ""
ObserveSkips(externalName, state) == externalName = "" /\ state = ""

\* e.tf.Observe: the adapter consults the Workspace through Refresh
AdapterObserve == Refresh

Observe ==
  /\ ~crashed
  /\ \E en \in ExternalNames, st \in StateAnnotations, ok \in BOOLEAN :
       LET call == [externalName |-> en, state |-> st, terraformed |-> ok,
                    result |-> "none"]
       IN IF ~ok
          THEN /\ observe' = [call EXCEPT !.result = "errUnexpectedObject"]
               /\ UNCHANGED vars
          ELSE IF ObserveSkips(en, st)
          THEN /\ observe' = [call EXCEPT !.result = "notExists"]
               /\ UNCHANGED vars
          ELSE /\ observe' = [call EXCEPT !.result = "consulted"]
               /\ AdapterObserve

ObsNext ==
  \/ Observe /\ UNCHANGED <<fvars, svars>>
  \/ (\E c \in BagToSet(calls) : RefreshEnd(c)) /\ UNCHANGED <<observe, fvars, svars>>
  \/ ApplyAsync /\ UNCHANGED <<observe, fvars, svars>>
  \/ TaskStep /\ UNCHANGED <<observe, fvars, svars>>

ObsSpec == Init /\ [][ObsNext]_allvars

\* ----------------------------------------------------------- FileProducer
CallTFState ==
  /\ fpOut' = [fn |-> "TFState", of |-> fp, state |-> {TFState(fp)}, config |-> {}]
  /\ UNCHANGED fp

CallMainTF ==
  /\ fpOut' = [fn |-> "MainTF", of |-> fp, state |-> {}, config |-> {MainTF(fp)}]
  /\ fp' = [fp EXCEPT !.parameters = MainTFParameters(fp)]

FPInit ==
  /\ WsIdle /\ ObserveIdle /\ StoreIdle
  /\ fp \in {NewFileProducer(r) : r \in Resources}
  /\ fpOut = NoOut

FPNext ==
  \/ CallTFState /\ UNCHANGED <<vars, observe, svars>>
  \/ CallMainTF /\ UNCHANGED <<vars, observe, svars>>

FPSpec == FPInit /\ [][FPNext]_allvars

\* --------------------------------------------------------- WorkspaceStore
\* Workspace objects the store may construct
MaxWs == 2

AcquirePCs == {"MkdirAll", "Stat", "WriteState", "WriteMain", "LoadOrStore"}
Acquiring == {t \in Threads : threads[t].pc \in AcquirePCs}

\* thread t enters a call; a thread is alone while no other call overlaps it
Enter(t, pc, f) ==
  threads' =
    [u \in Threads |->
       IF u = t
       THEN [pc |-> pc, fp |-> f, notExist |-> FALSE,
             alone |-> \A v \in Threads \ {t} : threads[v].pc = "idle"]
       ELSE IF threads[u].pc = "idle" THEN threads[u]
       ELSE [threads[u] EXCEPT !.alone = FALSE]]

Goto(t, pc) == threads' = [threads EXCEPT ![t].pc = pc]

\* thread t returns from a call
Leave(t, call, err, w) ==
  /\ threads' = [threads EXCEPT ![t] = IdleThread]
  /\ sret' = [call |-> call, err |-> err, w |-> w,
              enq |-> IF w # NoWorkspace /\ call = "Workspace" THEN t ELSE ""]

\* store.go 48-53: the call and NewFileProducer(tr)
WorkspaceEnter(t) ==
  /\ threads[t].pc = "idle"
  /\ allocated + Cardinality(Acquiring) < MaxWs
  /\ Enter(t, "MkdirAll", NewFileProducer(tr))
  /\ UNCHANGED <<tr, store, allocated, disk, handed, sret>>

\* store.go 54-56
MkdirAll(t) ==
  /\ threads[t].pc = "MkdirAll"
  /\ \E ok \in BOOLEAN :
       IF ok
       THEN /\ disk' = [disk EXCEPT !.dir = TRUE]
            /\ Goto(t, "Stat")
            /\ UNCHANGED sret
       ELSE /\ Leave(t, "Workspace", "cannot create directory for workspace", NoWorkspace)
            /\ UNCHANGED disk
  /\ UNCHANGED <<tr, store, allocated, handed>>

\* the state file written on every acquire
WritesStateAlways(notExist) == TRUE

\* os.IsNotExist(err): the branch that writes terraform.tfstate
WritesState(notExist) == notExist

\* store.go 57-62
Stat(t) ==
  /\ threads[t].pc = "Stat"
  /\ \E ok \in BOOLEAN :
       IF ok
       THEN LET notExist == ~disk.tfstate.exists
            IN /\ threads' = [threads EXCEPT
                                ![t].notExist = notExist,
                                ![t].pc = IF WritesState(notExist)
                                          THEN "WriteState" ELSE "WriteMain"]
               /\ UNCHANGED sret
       ELSE Leave(t, "Workspace", "cannot state terraform.tfstate file", NoWorkspace)
  /\ UNCHANGED <<tr, store, allocated, disk, handed>>

\* store.go 63-73
WriteState(t) ==
  /\ threads[t].pc = "WriteState"
  /\ \E ok \in BOOLEAN :
       IF ok /\ disk.dir
       THEN /\ disk' = [disk EXCEPT !.tfstate = FileOf(TFState(threads[t].fp))]
            /\ Goto(t, "WriteMain")
            /\ UNCHANGED sret
       ELSE /\ Leave(t, "Workspace", "cannot write tfstate file", NoWorkspace)
            /\ UNCHANGED disk
  /\ UNCHANGED <<tr, store, allocated, handed>>

\* store.go 75-81
WriteMain(t) ==
  /\ threads[t].pc = "WriteMain"
  /\ \E ok \in BOOLEAN :
       IF ok /\ disk.dir
       THEN /\ disk' = [disk EXCEPT !.maintf = FileOf(MainTF(threads[t].fp))]
            /\ threads' = [threads EXCEPT
                             ![t].fp.parameters = MainTFParameters(threads[t].fp),
                             ![t].pc = "LoadOrStore"]
            /\ UNCHANGED sret
       ELSE /\ Leave(t, "Workspace", "cannot write tfstate file", NoWorkspace)
            /\ UNCHANGED disk
  /\ UNCHANGED <<tr, store, allocated, handed>>

\* sync.Map.Store in the place of LoadOrStore
LoadOrStoreOverwrites(cur, new) == new

\* sync.Map.LoadOrStore: the entry after the call, which is what it returns
LoadOrStore(cur, new) == IF cur # NoWorkspace THEN cur ELSE new

\* store.go 82-86
WorkspaceReturn(t) ==
  /\ threads[t].pc = "LoadOrStore"
  /\ LET new == [id |-> allocated + 1, Enqueue |-> t]
         w == LoadOrStore(store, new)
     IN /\ store' = w
        /\ allocated' = IF w = new THEN allocated + 1 ELSE allocated
        /\ handed' = handed \cup {w.id}
        /\ Leave(t, "Workspace", "nil", w)
  /\ UNCHANGED <<tr, disk>>

\* store.go 89-93: the call and ws.store.Load
Remove(t) ==
  /\ threads[t].pc = "idle"
  /\ IF store = NoWorkspace
     THEN Leave(t, "Remove", "nil", NoWorkspace)
     ELSE /\ Enter(t, "RemoveAll", NoProducer)
          /\ UNCHANGED sret
  /\ UNCHANGED <<tr, store, allocated, disk, handed>>

\* store.go 94-96; a failed RemoveAll may have removed a part of the tree
RemoveAll(t) ==
  /\ threads[t].pc = "RemoveAll"
  /\ \E ok \in BOOLEAN :
       IF ok
       THEN /\ disk' = NoDisk
            /\ Goto(t, "Delete")
            /\ UNCHANGED sret
       ELSE /\ disk' \in {disk, [disk EXCEPT !.maintf = NoFile]}
            /\ Leave(t, "Remove", "cannot remove workspace folder", NoWorkspace)
  /\ UNCHANGED <<tr, store, allocated, handed>>

\* Remove returning without ws.store.Delete
DeleteKeepsEntry(t) ==
  /\ threads[t].pc = "Delete"
  /\ store' = store
  /\ handed' = handed
  /\ Leave(t, "Remove", "nil", store)
  /\ UNCHANGED <<tr, allocated, disk>>

\* store.go 97-98
Delete(t) ==
  /\ threads[t].pc = "Delete"
  /\ store' = NoWorkspace
  /\ handed' = {}
  /\ Leave(t, "Remove", "nil", store)
  /\ UNCHANGED <<tr, allocated, disk>>

\* the resource is edited or marked for deletion between two reconciles
Edit ==
  /\ \E r \in StoreResources \ {tr} :
       /\ tr.deleted => r.deleted
       /\ tr' = r
  /\ UNCHANGED <<store, allocated, disk, threads, handed, sret>>

\* terraform, run by the Workspace, rewrites the state file
Terraform ==
  /\ store # NoWorkspace
  /\ disk.dir
  /\ disk.tfstate # FileOf(ProvisionerState)
  /\ disk' = [disk EXCEPT !.tfstate = FileOf(ProvisionerState)]
  /\ UNCHANGED <<tr, store, allocated, threads, handed, sret>>

StoreInit ==
  /\ WsIdle /\ ObserveIdle /\ FPIdle
  /\ tr \in {r \in StoreResources : ~r.deleted}
  /\ store = NoWorkspace
  /\ allocated = 0
  /\ disk \in {NoDisk, LeftoverDisk}
  /\ threads = [t \in Threads |-> IdleThread]
  /\ handed = {}
  /\ sret = NoSRet

StoreNext ==
  \/ (\E t \in Threads : WorkspaceEnter(t)) /\ UNCHANGED <<vars, observe, fvars>>
  \/ (\E t \in Threads : MkdirAll(t)) /\ UNCHANGED <<vars, observe, fvars>>
  \/ (\E t \in Threads : Stat(t)) /\ UNCHANGED <<vars, observe, fvars>>
  \/ (\E t \in Threads : WriteState(t)) /\ UNCHANGED <<vars, observe, fvars>>
  \/ (\E t \in Threads : WriteMain(t)) /\ UNCHANGED <<vars, observe, fvars>>
  \/ (\E t \in Threads : WorkspaceReturn(t)) /\ UNCHANGED <<vars, observe, fvars>>
  \/ (\E t \in Threads : Remove(t)) /\ UNCHANGED <<vars, observe, fvars>>
  \/ (\E t \in Threads : RemoveAll(t)) /\ UNCHANGED <<vars, observe, fvars>>
  \/ (\E t \in Threads : Delete(t)) /\ UNCHANGED <<vars, observe, fvars>>
  \/ Edit /\ UNCHANGED <<vars, observe, fvars>>
  \/ Terraform /\ UNCHANGED <<vars, observe, fvars>>

StoreSpec == StoreInit /\ [][StoreNext]_allvars


\* ------------------------------------------------------------- properties
\* a step in which a Refresh call enters, the first or the second one after
\* the async operation recorded in done completed
RefreshEnters == done'.kind = done.kind /\ done'.refreshes = done.refreshes + 1

\* a step in which ApplyAsync or Destroy starts a goroutine
Launches == BagCardinality(tasks') > BagCardinality(tasks)

\* the lifecycle state of an Operation record
Phase(o) ==
  IF IsIdle(o) THEN "Idle"
  ELSE IF IsRunning(o) THEN "Running"
  ELSE IF IsFinished(o) THEN "Finished"
  ELSE "other"

\* C1: at most one provisioner process of the Workspace is alive, under any
\* interleaving of Plan, Apply, ApplyAsync, Destroy and Refresh calls.
C1_AtMostOneProcess == NumAlive <= 1

\* C2: the mutators change the record later readers see: after MarkStart(t)
\* the operation reads Running with type t and no error, after MarkEnd it has
\* an end time, after Flush it reads Idle.
C2_MutatorsVisible ==
  /\ lastMutator = "MarkStart apply" =>
       IsRunning(op) /\ op.Type = "apply" /\ op.err = NoErr
  /\ lastMutator = "MarkStart destroy" =>
       IsRunning(op) /\ op.Type = "destroy" /\ op.err = NoErr
  /\ lastMutator = "MarkEnd" => IsFinished(op)
  /\ lastMutator = "Flush" => IsIdle(op)

\* C3: ApplyAsync returns Busy exactly when the operation is Running, and then
\* starts nothing and changes nothing; on an Idle or Finished operation it
\* succeeds, starts the goroutine and leaves the operation Running("apply").
C3_ApplyAsyncBusyIffRunning ==
  (ret.call = "ApplyAsync" /\ ~nilOp) =>
    /\ (ret.result = "busy") <=> IsRunning(ret.pre)
    /\ IsRunning(ret.pre) => (~ret.spawned /\ ret.post = ret.pre)
    /\ (IsIdle(ret.pre) \/ IsFinished(ret.pre)) =>
         /\ ret.result = "ok"
         /\ ret.spawned
         /\ IsRunning(ret.post)
         /\ ret.post.Type = "apply"

\* C4: a Destroy call on an operation of type "destroy" returns success,
\* starts no process and leaves the operation unchanged; and a Destroy call
\* that directly follows a Destroy call that started a destroy starts none.
C4_DestroyIdempotent ==
  /\ []((ret.call = "Destroy" /\ ret.pre.Type = "destroy") =>
          (ret.result = "ok" /\ ~ret.spawned /\ ret.post = ret.pre))
  /\ [][(ret.call = "Destroy" /\ ret.spawned) =>
          tasks' # tasks (+) One(NewTask("destroy"))]_vars

\* C5: a Destroy call on an operation whose type is not "destroy" returns Busy
\* if the operation is Running, starting and changing nothing; otherwise it
\* starts one destroy goroutine and leaves the operation Running("destroy").
C5_DestroyOtherType ==
  (ret.call = "Destroy" /\ ~nilOp /\ ret.pre.Type # "destroy") =>
    IF IsRunning(ret.pre)
    THEN ret.result = "busy" /\ ~ret.spawned /\ ret.post = ret.pre
    ELSE /\ ret.result = "ok"
         /\ ret.spawned
         /\ IsRunning(ret.post)
         /\ ret.post.Type = "destroy"

\* C6: every goroutine started by ApplyAsync or Destroy invokes Enqueue once,
\* never more, and when it invokes it the operation reads Finished (start and
\* end time set) with the error recorded if the provisioner failed.
C6_EnqueueOnceWhenFinished ==
  /\ [](\A t \in BagToSet(tasks) :
          /\ t.enq <= 1
          /\ Stmt(t) = "cancel" => t.enq = 1)
  /\ [][\A t \in BagToSet(tasks) :
          (Stmt(t) = "Enqueue" /\ tasks' = Replace(t, [t EXCEPT !.pc = @ + 1, !.enq = @ + 1])) =>
             (IsFinished(op) /\ (t.failed => op.err # NoErr))]_vars

\* C6 witness: a failed async operation has invoked Enqueue, the operation
\* reading Finished with its error
C6_Witness ==
  \E t \in BagToSet(tasks) :
    t.enq = 1 /\ t.failed /\ IsFinished(op) /\ op.err = WrapErr(t.kind)

\* C7: after an async destroy that completed without error the first Refresh
\* returns not-found without running terraform, and the second one takes the
\* normal path (it starts the refresh-only run).
C7_GoneExactlyOnce ==
  [][(done.kind = "destroy" /\ ~done.failed /\ RefreshEnters) =>
       IF done.refreshes = 0
       THEN ret'.call = "Refresh" /\ ret'.result = "notFound" /\ calls' = calls
       ELSE calls' # calls]_vars

\* C8: after an async apply or destroy that completed with an error the first
\* Refresh returns lastOperationError with the flag of that operation, runs no
\* process and leaves the operation Idle; the second Refresh no longer reports
\* the error but takes the normal path.
C8_ErrorSurfacedOnce ==
  [][(done.kind # "" /\ done.failed /\ RefreshEnters) =>
       IF done.refreshes = 0
       THEN /\ ret'.call = "Refresh"
            /\ ret'.result = "lastOperationError"
            /\ ret'.IsApplying = (done.kind = "apply")
            /\ ret'.IsDestroying = (done.kind = "destroy")
            /\ calls' = calls
            /\ IsIdle(op')
       ELSE calls' # calls]_vars

\* C9: a Refresh called while an apply or destroy operation is Running returns
\* only the flags (IsApplying iff type apply, IsDestroying iff type destroy),
\* starts no process and leaves the operation unchanged.
C9_RefreshWhileRunning ==
  (ret.call = "Refresh" /\ IsRunning(ret.pre)) =>
    /\ ret.result = "flags"
    /\ ret.IsApplying = (ret.pre.Type = "apply")
    /\ ret.IsDestroying = (ret.pre.Type = "destroy")
    /\ ~ret.spawned
    /\ ret.post = ret.pre

\* C9 witness: a Refresh returned the flags of a Running destroy
C9_Witness ==
  /\ ret.call = "Refresh"
  /\ IsRunning(ret.pre)
  /\ ret.pre.Type = "destroy"
  /\ ret.IsDestroying
  /\ ~ret.IsApplying

\* C10: while an async operation has completed and no Refresh has entered
\* since, no ApplyAsync or Destroy starts a new operation; and the operation
\* only moves Idle -> Running -> Finished -> Idle.
C10_FinishedObservedBeforeRestart ==
  /\ [][(done.kind # "" /\ done.refreshes = 0) => ~Launches]_vars
  /\ [][\/ Phase(op') = Phase(op)
        \/ <<Phase(op), Phase(op')>> \in
             {<<"Idle", "Running">>, <<"Running", "Finished">>, <<"Finished", "Idle">>}]_vars

\* C17: Plan and Apply return Busy exactly when the operation is Running and
\* then start nothing; on an Idle or Finished operation they run terraform;
\* and the step in which either returns leaves the operation as it is.
C17_SyncBusyIffRunning ==
  /\ []((ret.call \in {"Plan", "Apply"} /\ ~nilOp) =>
          /\ (ret.result = "busy") <=> IsRunning(ret.pre)
          /\ ret.result = "busy" => (~ret.spawned /\ ret.post = ret.pre)
          /\ ~IsRunning(ret.pre) => ret.spawned)
  /\ [][(ret' # ret /\ ret'.call \in {"Plan", "Apply"}) => op' = op]_vars

C16_ObserveShortCircuit ==
  /\ [](observe.terraformed =>
          /\ (observe.result = "notExists") <=>
               (observe.externalName = "" /\ observe.state = "")
          /\ (observe.result = "consulted") <=>
               ~(observe.externalName = "" /\ observe.state = ""))
  /\ [][(observe' # observe /\ observe'.result = "notExists") => UNCHANGED vars]_allvars
  /\ [][(observe' # observe /\ observe'.result = "consulted") => Refresh]_allvars

\* Observe took the short circuit while a goroutine of the Workspace was alive
C16_Witness ==
  /\ observe.result = "notExists"
  /\ observe.terraformed
  /\ \E t \in BagToSet(tasks) : t.alive

\* C15: the state TFState returns has lineage equal to the key, exactly one
\* resource with exactly one instance at schema version 0, and attributes that
\* are the producer's parameters overwritten by its observation overwritten by
\* id = external name.
C15_StateIsMerge ==
  fpOut.fn = "TFState" =>
    /\ Cardinality(fpOut.state) = 1
    /\ \A s \in fpOut.state :
         LET p == fpOut.of.parameters
             o == fpOut.of.observation
             attrs == Unmarshal(s.Resources[1].Instances[1].AttributesRaw)
         IN /\ s.Lineage = fpOut.of.Resource.uid
            /\ Len(s.Resources) = 1
            /\ Len(s.Resources[1].Instances) = 1
            /\ s.Resources[1].Instances[1].SchemaVersion = 0
            /\ DOMAIN attrs = DOMAIN p \cup DOMAIN o \cup {"id"}
            /\ attrs["id"] = fpOut.of.Resource.externalName
            /\ \A k \in DOMAIN o \ {"id"} : attrs[k] = o[k]
            /\ \A k \in DOMAIN p \ (DOMAIN o \cup {"id"}) : attrs[k] = p[k]

\* TFState ran on a producer as NewFileProducer builds it, whose parameters and
\* observation share a key and both hold an id
C15_Witness ==
  /\ fpOut.fn = "TFState"
  /\ fpOut.of.parameters = fpOut.of.Resource.parameters
  /\ DOMAIN fpOut.of.parameters = {"id", "a"}
  /\ DOMAIN fpOut.of.observation = {"id", "a"}
  /\ fpOut.of.Resource.externalName = "ext"

\* C11: the Workspace references handed out since the last Delete of the key
\* are one and the same, it is the entry of the registry, and an entry of the
\* registry is never replaced by another one: it keeps its Enqueue.
C11_SameWorkspace ==
  /\ [](/\ Cardinality(handed) <= 1
        /\ store # NoWorkspace => handed \subseteq {store.id})
  /\ []((sret.call = "Workspace" /\ sret.err = "nil") => sret.w # NoWorkspace)
  /\ [][(store # NoWorkspace /\ store' # NoWorkspace) => store' = store]_allvars

\* an acquire that passed another callback got the stored Workspace back
C11_Witness ==
  /\ sret.call = "Workspace"
  /\ sret.err = "nil"
  /\ sret.w = store
  /\ sret.enq # sret.w.Enqueue

\* C12: Remove of a key without an entry returns nil and changes neither the
\* registry nor the disk; Remove of a registered key removes the directory,
\* then the entry, and returns nil; when RemoveAll fails Remove returns the
\* error and keeps the entry; the acquire that finds no entry stores a
\* Workspace that was never in the registry before.
C12_RemoveIdempotent ==
  /\ [][(sret' # sret /\ sret'.call = "Remove" /\ threads' = threads) =>
          (/\ store = NoWorkspace
           /\ sret'.err = "nil"
           /\ store' = store
           /\ disk' = disk)]_allvars
  /\ [][\A t \in Threads :
          /\ (threads[t].pc = "idle" /\ threads'[t].pc = "RemoveAll") =>
               store # NoWorkspace
          /\ (threads[t].pc = "RemoveAll" /\ threads'[t].pc = "Delete") =>
               (disk' = NoDisk /\ store' = store)
          /\ (threads[t].pc = "RemoveAll" /\ threads'[t].pc = "idle") =>
               (store' = store /\ sret'.call = "Remove" /\ sret'.err # "nil")
          /\ (threads[t].pc = "Delete" /\ threads'[t].pc = "idle") =>
               (/\ store' = NoWorkspace
                /\ sret'.call = "Remove" /\ sret'.err = "nil"
                /\ threads[t].alone => disk' = NoDisk)
          /\ (threads[t].pc = "LoadOrStore" /\ threads'[t].pc = "idle"
                /\ store = NoWorkspace) =>
               (store'.id > allocated /\ sret'.w = store')]_allvars

\* a Remove that found no entry returned nil after an earlier Remove had
\* deleted the Workspace of the key
C12_Witness ==
  /\ sret = [call |-> "Remove", err |-> "nil", w |-> NoWorkspace, enq |-> ""]
  /\ allocated = 1
  /\ store = NoWorkspace
  /\ disk = NoDisk
  /\ \A t \in Threads : threads[t].pc = "idle"

\* C13: an acquire whose Stat found terraform.tfstate never writes it: from
\* that Stat to its return none of its steps changes the file, whatever the
\* parameters of its resource are.
C13_StateWrittenOnlyWhenAbsent ==
  [][\A t \in Threads :
       (/\ threads[t].pc \in {"WriteState", "WriteMain", "LoadOrStore"}
        /\ ~threads[t].notExist
        /\ threads'[t] # threads[t]) => disk'.tfstate = disk.tfstate]_allvars

\* the first acquire of the process found the state file terraform had left,
\* kept it, and wrote main.tf.json for a resource with other parameters
C13_Witness ==
  \E t \in Threads :
    /\ threads[t].pc = "LoadOrStore"
    /\ ~threads[t].notExist
    /\ allocated = 0
    /\ threads[t].fp.Resource.parameters = [a |-> "q"]
    /\ disk.tfstate = FileOf(ProvisionerState)
    /\ disk.maintf = FileOf([resource |-> Marshal([a |-> "q", prevent_destroy |-> "true"])])

\* the configuration of resource r: its parameters and prevent_destroy
ExpectedConfig(r) ==
  [resource |->
     {<<k, r.parameters[k]>> : k \in DOMAIN r.parameters \ {"prevent_destroy"}}
       \cup {<<"prevent_destroy", Bool(~r.deleted)>>}]

\* C14: the write of main.tf.json in an acquire for resource r stores the
\* configuration of r with prevent_destroy = ~r.deleted, whatever the file held,
\* and an acquire that no other call overlapped returns with that file on disk.
C14_ConfigRewritten ==
  /\ [][\A t \in Threads :
          (threads[t].pc = "WriteMain" /\ threads'[t].pc = "LoadOrStore") =>
            disk'.maintf = FileOf(ExpectedConfig(threads[t].fp.Resource))]_allvars
  /\ [][\A t \in Threads :
          (threads[t].pc = "LoadOrStore" /\ threads'[t].pc = "idle"
             /\ threads[t].alone) =>
            /\ sret'.err = "nil"
            /\ disk'.maintf = FileOf(ExpectedConfig(threads[t].fp.Resource))]_allvars

\* an acquire for the resource marked for deletion returned, and the file that
\* held prevent_destroy = true now holds false
C14_Witness ==
  /\ sret.call = "Workspace"
  /\ sret.err = "nil"
  /\ tr.deleted
  /\ \E v \in {"p", "q"} :
       disk.maintf = FileOf([resource |-> Marshal([a |-> v, prevent_destroy |-> "false"])])

\* C19: a thread writes terraform.tfstate only while the file does not exist,
\* so of the acquires racing for a new key one writes and no other overwrites.
C19_OneInitialWriter ==
  [][\A t \in Threads :
       (threads[t].pc = "WriteState" /\ threads'[t].pc = "WriteMain") =>
         ~disk.tfstate.exists]_allvars

\* C21: a Refresh that read an Idle operation, or a Finished apply without
\* error, has run terraform and returns with both flags false, and the
\* operation is Idle when it returns, whatever the run and the read of the
\* state file gave.
C21_RefreshNormalPath ==
  (/\ ret.call = "Refresh"
   /\ ~nilOp
   /\ \/ IsIdle(ret.pre)
      \/ IsFinished(ret.pre) /\ ret.pre.Type = "apply" /\ ret.pre.err = NoErr) =>
    /\ ret.spawned
    /\ ret.result \in {"execError", "stateReadError", "parseError", "state"}
    /\ ~ret.IsApplying /\ ~ret.IsDestroying
    /\ IsIdle(ret.post)

\* C22: what TFState returns depends on the resource only, not on the calls
\* made on the producer before: its attributes have the keys of the resource's
\* parameters and observation and id, so prevent_destroy is among them only if
\* it is a key of the resource, and MainTF returns the configuration of the
\* resource on every call.
C22_ProducerPure ==
  /\ fpOut.fn = "TFState" =>
       \A s \in fpOut.state :
         LET r == fpOut.of.Resource
             attrs == Unmarshal(s.Resources[1].Instances[1].AttributesRaw)
         IN /\ DOMAIN attrs = DOMAIN r.parameters \cup DOMAIN r.observation \cup {"id"}
            /\ "prevent_destroy" \in DOMAIN attrs =>
                 "prevent_destroy" \in DOMAIN r.parameters \cup DOMAIN r.observation
  /\ fpOut.fn = "MainTF" => fpOut.config = {ExpectedConfig(fpOut.of.Resource)}

\* C23: when no call is inside the store and the last call to return was an
\* acquire that returned a Workspace or a Remove that deleted one, the registry
\* and the disk agree: with an entry the directory holds terraform.tfstate and
\* main.tf.json, without an entry there is no directory, and the Workspace the
\* acquire returned is the entry.
C23_RegistryDiskAgree ==
  (/\ \A t \in Threads : threads[t].pc = "idle"
   /\ sret.err = "nil"
   /\ sret.w # NoWorkspace) =>
    /\ store # NoWorkspace =>
         (disk.dir /\ disk.tfstate.exists /\ disk.maintf.exists)
    /\ store = NoWorkspace => ~disk.dir
    /\ sret.call = "Workspace" => sret.w = store

\* C24: on the Workspace as WorkspaceStore.Workspace constructs it, with the
\* LastOperation field it does not set, no call of Plan, Apply, ApplyAsync,
\* Destroy or Refresh faults: the field reads as an Idle operation.
C24_FreshWorkspaceUsable ==
  nilOp => (~crashed /\ ret.result # "panic")

====
